---- MODULE Spec2Model ----
(***************************************************************************)
(* Gaussian Process Classifier (class GPC of GP.ipynb): the model object,  *)
(* its fit / predict / predict_params calls, and the Newton loop of        *)
(* posterior_mode.                                                          *)
(*                                                                         *)
(* Numbers.  The source computes in IEEE doubles.  Here every real is an   *)
(* integer count of 1/Scale (so Scale is the number 1.0), and every        *)
(* arithmetic result is rounded to Mant significant units by Fl, the way a *)
(* double rounds to 53 bits: a small addend is absorbed by a large one.    *)
(* np.exp is the rational function 1/(1 - x + x^2/2) for x <= 0, and       *)
(* expit(a) = 1/(1 + exp(-a)) is built from it, so both are monotone,      *)
(* bounded and saturate at the resolution of the grid as the library       *)
(* functions saturate at the resolution of a double.                       *)
(***************************************************************************)
EXTENDS Integers, Sequences, FiniteSets, TLC

\* ------------------------------------------------------------------ numbers

\* 1.0 on the grid.
Scale == 100
\* Significant units a result keeps (the mantissa of the number format).
Mant == 1000

Abs(x) == IF x < 0 THEN -x ELSE x

\* a / b rounded to the nearest integer, halves away from zero.
RDiv(a, b) ==
  LET n == IF b < 0 THEN -a ELSE a
      d == Abs(b)
  IN  IF n >= 0 THEN (2 * n + d) \div (2 * d)
      ELSE -((2 * (-n) + d) \div (2 * d))

\* Rounding of a result to the number format.
RECURSIVE Fl(_)
Fl(x) == IF Abs(x) < Mant THEN x ELSE 10 * Fl(RDiv(x, 10))

FAdd(a, b) == Fl(a + b)
FSub(a, b) == Fl(a - b)
FMul(a, b) == Fl(RDiv(a * b, Scale))
\* b # 0
FDiv(a, b) == Fl(RDiv(a * Scale, b))

\* np.exp
Exp(x) ==
  LET h == RDiv(FMul(x, x), 2)
  IN  IF x <= 0 THEN FDiv(Scale, Fl(Scale - x + h))
      ELSE Fl(Scale + x + h)

\* scipy.special.expit
sigmoid(a) ==
  IF a >= 0 THEN FDiv(Scale, FAdd(Scale, Exp(-a)))
  ELSE FSub(Scale, FDiv(Scale, FAdd(Scale, Exp(a))))

\* The largest r in lo..hi with r * r <= v, by bisection (lo * lo <= v).
RECURSIVE Root(_, _, _)
Root(v, lo, hi) ==
  IF lo >= hi THEN lo
  ELSE LET mid == (lo + hi + 1) \div 2
       IN  IF mid * mid <= v THEN Root(v, mid, hi) ELSE Root(v, lo, mid - 1)

\* np.sqrt of a non-negative number: the grid value nearest below the root
\* (of a negative number it is nan: see Probit, its one caller).
Sqrt(x) == IF x < 0 THEN 0 ELSE Root(x * Scale, 0, x + Scale)

\* ------------------------------------------------------ vectors and matrices
\* A vector is a sequence of numbers; a matrix is a sequence of rows.

\* The function f on 1..n as the sequence <<f[1], ..., f[n]>>.
AsSeq(f) == f \o <<>>

RECURSIVE SumSeq(_)
SumSeq(s) ==
  IF s = <<>> THEN 0 ELSE FAdd(SumSeq(SubSeq(s, 1, Len(s) - 1)), s[Len(s)])

Rows(M) == Len(M)
Cols(M) == IF M = <<>> THEN 0 ELSE Len(M[1])
Column(M, j) == AsSeq([i \in 1..Rows(M) |-> M[i][j]])
Transpose(M) == AsSeq([j \in 1..Cols(M) |-> Column(M, j)])

Dot(u, v) == SumSeq(AsSeq([k \in 1..Len(u) |-> FMul(u[k], v[k])]))
MatVec(M, v) == AsSeq([i \in 1..Rows(M) |-> Dot(M[i], v)])
MatMul(A, B) ==
  AsSeq([i \in 1..Rows(A) |->
           AsSeq([j \in 1..Cols(B) |-> Dot(A[i], Column(B, j))])])
MatAdd(A, B) ==
  AsSeq([i \in 1..Rows(A) |->
           AsSeq([j \in 1..Cols(A) |-> FAdd(A[i][j], B[i][j])])])
VecAdd(u, v) == AsSeq([k \in 1..Len(u) |-> FAdd(u[k], v[k])])
VecSub(u, v) == AsSeq([k \in 1..Len(u) |-> FSub(u[k], v[k])])
Eye(n) ==
  AsSeq([i \in 1..n |-> AsSeq([j \in 1..n |-> IF i = j THEN Scale ELSE 0])])
Diag(v) ==
  AsSeq([i \in 1..Len(v) |->
           AsSeq([j \in 1..Len(v) |-> IF i = j THEN v[i] ELSE 0])])
Zeros(n) == AsSeq([k \in 1..n |-> 0])

\* Determinant of a 1 x 1 or 2 x 2 matrix.
Det(M) ==
  IF Rows(M) = 1 THEN M[1][1]
  ELSE FSub(FMul(M[1][1], M[2][2]), FMul(M[1][2], M[2][1]))

\* The inverse of a 1 x 1 or 2 x 2 matrix M of determinant d # 0.
InvOf(M, d) ==
  IF Rows(M) = 1 THEN << <<FDiv(Scale, d)>> >>
  ELSE << <<FDiv(M[2][2], d), FDiv(-M[1][2], d)>>,
          <<FDiv(-M[2][1], d), FDiv(M[1][1], d)>> >>

InvFrom(M, d) ==
  IF d = 0 THEN [kind |-> "LinAlgError", val |-> <<>>]
  ELSE [kind |-> "ok", val |-> InvOf(M, d)]

\* np.linalg.inv: raises LinAlgError on a singular matrix.
Inv(M) == InvFrom(M, Det(M))

\* The squared Frobenius norm of M.
SqFro(M) ==
  SumSeq(AsSeq([k \in 1..(Rows(M) * Rows(M)) |->
    FMul(M[((k - 1) \div Rows(M)) + 1][((k - 1) % Rows(M)) + 1],
         M[((k - 1) \div Rows(M)) + 1][((k - 1) % Rows(M)) + 1])]))

PinvFrom(M, d, fro) ==
  IF d # 0 THEN InvOf(M, d)
  ELSE IF fro = 0
  THEN AsSeq([i \in 1..Rows(M) |-> AsSeq([j \in 1..Rows(M) |-> 0])])
  ELSE AsSeq([i \in 1..Rows(M) |->
                AsSeq([j \in 1..Rows(M) |-> FDiv(M[j][i], fro)])])

\* np.linalg.pinv: the inverse where there is one, and otherwise the
\* Moore-Penrose pseudo-inverse (of rank 1: the transpose over the squared
\* Frobenius norm; of rank 0: zero).  It does not raise on these inputs.
Pinv(M) == PinvFrom(M, Det(M), SqFro(M))

\* ------------------------------------------------------------ python values

\* Python's None.  It is encoded as the empty tuple, which no hyperparameter
\* vector, data set or label vector of the model is.
None == <<>>

\* The outcome of a call: a normal return with its value, or the exception
\* that propagates to the caller.
Ok(v) == [kind |-> "ok", val |-> v]
Raise(e) == [kind |-> e, val |-> None]

\* ------------------------------------------------------------------ class GPC
\* A data set X is a sequence of points, a point a sequence of coordinates;
\* y is the sequence of its labels (0 or 1.0); theta = <<length_scale,
\* signal_std>>.

\* nu of K_: one unit of the grid, the smallest positive number there is.
Nu == 1
\* max_iter and tol defaults of posterior_mode.  A difference on the grid
\* exceeds 1e-9 exactly when it exceeds 0.
DefaultMaxIter == 10
DefaultTol == 0

SqNorm(p) == SumSeq(AsSeq([k \in 1..Len(p) |-> FMul(p[k], p[k])]))

\* sqdist of exp_kernel, entry by entry.
SqDist(p, q) == FSub(FAdd(SqNorm(p), SqNorm(q)), Fl(2 * Dot(p, q)))

\* -0.5 / theta[0] ** 2 of line 63.
NegHalfOver(theta) == FDiv(-(Scale \div 2), FMul(theta[1], theta[1]))

\* GPC.exp_kernel.  theta[1] on None raises TypeError.
exp_kernel(X1, X2, theta) ==
  IF theta = None THEN Raise("TypeError")
  ELSE Ok(AsSeq([i \in 1..Len(X1) |-> AsSeq([j \in 1..Len(X2) |->
            FMul(FMul(theta[2], theta[2]),
                 Exp(FMul(NegHalfOver(theta), SqDist(X1[i], X2[j]))))])]))

\* nu * np.eye(n)
Jitter(n) ==
  AsSeq([i \in 1..n |-> AsSeq([j \in 1..n |-> IF i = j THEN Nu ELSE 0])])

KFrom(k, n) == IF k.kind # "ok" THEN k ELSE Ok(MatAdd(k.val, Jitter(n)))

\* GPC.K_ with diag_only=False.
K_(X, theta) == KFrom(exp_kernel(X, X, theta), Len(X))

\* GPC.K_ with diag_only=True.
K_diag(theta) ==
  IF theta = None THEN Raise("TypeError")
  ELSE Ok(FAdd(FMul(theta[2], theta[2]), Nu))

\* sigmoid(a) * (1 - sigmoid(a)) of W_, from s = sigmoid(a).
Weight(s) == FMul(s, FSub(Scale, s))

\* sigmoid(a), entry by entry.
SigmoidOf(a) == AsSeq([k \in 1..Len(a) |-> sigmoid(a[k])])

\* GPC.W_
W_(a) == Diag(AsSeq([k \in 1..Len(a) |-> Weight(sigmoid(a[k]))]))

\* Lines 117-118 of posterior_mode, from W of line 116.
NewtonFrom(y, K_a, a_h, W) ==
  MatVec(MatMul(K_a, Pinv(MatAdd(Eye(Len(K_a)), MatMul(W, K_a)))),
         VecAdd(VecSub(y, SigmoidOf(a_h)), MatVec(W, a_h)))

\* Lines 116-118 of posterior_mode: the Newton update a_h_new.
NewtonUpdate(y, K_a, a_h) == NewtonFrom(y, K_a, a_h, W_(a_h))

\* Lines 119 and 122: np.any(a_h_diff > tol).
AnyDiffAbove(a_h_new, a_h, tol) ==
  \E k \in 1..Len(a_h) : Abs(FSub(a_h_new[k], a_h[k])) > tol

\* A variant of LoopBodyFrom that tests before it assigns: on break the
\* loop keeps the iterate it had.  The code does not do this (line 120 comes
\* before line 122); C9_UpdateThenTest tells the two apart.
LoopBodyKeep(a_h_new, a_h, tol) ==
  [a_h |-> IF AnyDiffAbove(a_h_new, a_h, tol) THEN a_h_new ELSE a_h,
   brk |-> ~AnyDiffAbove(a_h_new, a_h, tol)]

\* Lines 119-123: what the loop holds once a_h_new is computed, and whether
\* the pass ends in break.
LoopBodyFrom(a_h_new, a_h, tol) ==
  [a_h |-> a_h_new, brk |-> ~AnyDiffAbove(a_h_new, a_h, tol)]

\* One pass through the body of the for loop, lines 116-123.
LoopBody(y, K_a, a_h, tol) == LoopBodyFrom(NewtonUpdate(y, K_a, a_h), a_h, tol)

\* A variant of InitialIterate that sizes the vector by X instead of y;
\* C6_ZeroIterations tells the two apart.
ZerosLikeX(X, y) == Zeros(Len(X))

\* a_h = np.zeros_like(y), line 112.
InitialIterate(X, y) == Zeros(Len(y))

\* A variant of InRange that allows one pass more; C5_Terminates tells the
\* two apart.
InRangeInclusive(done, max_iter) == done <= max_iter

\* for i in range(max_iter), line 115: whether a pass follows `done` passes.
InRange(done, max_iter) == done < max_iter

\* The for loop from its state after `done` passes to its end; b is the
\* outcome of the pass that comes next, if one does.
RECURSIVE ForLoopFrom(_, _, _, _, _, _, _)
ForLoopFrom(y, K_a, a_h, done, max_iter, tol, b) ==
  IF ~InRange(done, max_iter) THEN a_h
  ELSE IF b.brk THEN b.a_h
  ELSE ForLoopFrom(y, K_a, b.a_h, done + 1, max_iter, tol,
                   LoopBody(y, K_a, b.a_h, tol))

ForLoop(y, K_a, a_h, max_iter, tol) ==
  ForLoopFrom(y, K_a, a_h, 0, max_iter, tol, LoopBody(y, K_a, a_h, tol))

\* Whether I + W @ K_a of line 117 is defined: W is len(y) x len(y), I and
\* K_a are n x n.  numpy raises ValueError otherwise.
ShapesAgree(X, y, K_a) == Len(y) = Len(X) /\ Len(K_a) = Len(X)

\* GPC.posterior_mode
posterior_mode(X, y, K_a, max_iter, tol) ==
  IF InRange(0, max_iter) /\ ~ShapesAgree(X, y, K_a) THEN Raise("ValueError")
  ELSE Ok(ForLoop(y, K_a, InitialIterate(X, y), max_iter, tol))

\* The objective nll(theta) returned by GPC.nll_fn(X, y), lines 140-155.
\* Its scalar value goes only to the external minimizer, whose choice among
\* the candidate thetas is left open below, and is not computed here; what
\* is modelled is which evaluations return and which raise.
NllTail(K_a_inv, a_h) ==
  IF K_a_inv.kind # "ok" THEN K_a_inv
  ELSE IF a_h.kind # "ok" THEN a_h
  ELSE Ok("float")

NllBody(X, y, K_a) ==
  IF K_a.kind # "ok" THEN K_a
  ELSE NllTail(Inv(K_a.val),
               posterior_mode(X, y, K_a.val, DefaultMaxIter, DefaultTol))

nll(X, y, theta) == NllBody(X, y, K_(X, theta))

\* np.pi
Pi == 314

\* np.sum((R_inv @ K_s) * K_s, axis=0): one number per test point.
ColSumProd(A, B) ==
  AsSeq([j \in 1..Cols(B) |->
           SumSeq(AsSeq([i \in 1..Rows(B) |-> FMul(A[i][j], B[i][j])]))])

\* Lines 178 and 180 (207 and 209): the mean and the variance of the logits
\* from the cross-covariance, the labels, the mode and R_inv.
MuVar(K_s, labels, a_h, R_inv, kd) ==
  << MatVec(Transpose(K_s), VecSub(labels, SigmoidOf(a_h))),
     AsSeq([j \in 1..Cols(K_s) |->
              FSub(kd, ColSumProd(MatMul(R_inv, K_s), K_s)[j])]) >>

\* Lines 175-182 of mean_var, once a_h is there: its outcome.
MeanVarTail(self, K_a, K_s, a_h) ==
  IF a_h.kind # "ok" THEN a_h
  ELSE Ok(MuVar(K_s, self.y, a_h.val,
                Pinv(MatAdd(Pinv(W_(a_h.val)), K_a)), K_diag(self.theta).val))

\* Lines 173-182 of mean_var, once K_a and K_s are there.
MeanVarBody(self, K_a, K_s) ==
  IF K_a.kind # "ok" THEN K_a
  ELSE IF K_s.kind # "ok" THEN K_s
  ELSE MeanVarTail(self, K_a.val, K_s.val,
         posterior_mode(self.X, self.y, K_a.val, DefaultMaxIter, DefaultTol))

\* GPC.mean_var.  self is a model object: the set attrs of the attributes
\* it has, and their values.  Reading self.X before it was ever assigned
\* raises AttributeError.
mean_var(self, X_test) ==
  IF "X" \notin self.attrs THEN Raise("AttributeError")
  ELSE MeanVarBody(self, K_(self.X, self.theta),
                   exp_kernel(self.X, X_test, self.theta))

\* nan, which np.sqrt returns (with a warning, not an exception) for a
\* negative number and which every later operation hands on: the value
\* -1.0, which is no probability.
NaN == -Scale

\* sigmoid(kappa * a_mu) with kappa = 1 / np.sqrt(rad), lines 190-191.
ProbitOf(a_mu, rad, root) ==
  IF rad < 0 THEN NaN
  ELSE IF root = 0 THEN Scale
  ELSE sigmoid(FMul(FDiv(Scale, root), a_mu))

\* 1.0 + np.pi * a_var / 8, line 190.
Radicand(a_var) == FAdd(Scale, FDiv(FMul(Pi, a_var), 8 * Scale))

\* Lines 190-191: the probit correction, from the mean and the variance of
\* the logits of one test point.
Probit(a_mu, a_var) == ProbitOf(a_mu, Radicand(a_var), Sqrt(Radicand(a_var)))

\* Lines 190-191 of predict, given what mean_var did.
PredictTail(mv) ==
  IF mv.kind # "ok" THEN mv
  ELSE Ok(AsSeq([j \in 1..Len(mv.val[1]) |->
                   Probit(mv.val[1][j], mv.val[2][j])]))

\* GPC.predict
predict(self, X) == PredictTail(mean_var(self, X))

\* Lines 205-211 of predict_params, once W_inv is there.
ParamsInverse(self, labels, K_a, K_s, a_h, W_inv, R_inv) ==
  IF W_inv.kind # "ok" THEN W_inv
  ELSE IF R_inv.kind # "ok" THEN R_inv
  ELSE Ok(MuVar(K_s, labels, a_h, R_inv.val, K_diag(self.theta).val))

\* inv(W_inv + K_a) of line 205; it is not reached when inv(W) raised.
InvSum(W_inv, K_a) ==
  IF W_inv.kind # "ok" THEN W_inv ELSE Inv(MatAdd(W_inv.val, K_a))

\* Lines 204-211 of predict_params, once a_h is there.
ParamsTail(self, labels, K_a, K_s, a_h) ==
  IF a_h.kind # "ok" THEN a_h
  ELSE ParamsInverse(self, labels, K_a, K_s, a_h.val, Inv(W_(a_h.val)),
                     InvSum(Inv(W_(a_h.val)), K_a))

\* Lines 202-211 of predict_params, once K_a and K_s are there.
ParamsBody(self, globs, K_a, K_s) ==
  IF K_a.kind # "ok" THEN K_a
  ELSE IF K_s.kind # "ok" THEN K_s
  ELSE IF "y" \notin globs.names THEN Raise("NameError")
  ELSE ParamsTail(self, globs.y, K_a.val, K_s.val,
         posterior_mode(self.X, globs.y, K_a.val, DefaultMaxIter, DefaultTol))

\* GPC.predict_params.  The name y in its body is not self.y: it is looked
\* up in the module's globals, here globs: the set names of the names bound
\* at module level, and their values; an unbound name raises NameError.
predict_params(self, globs, X_test) ==
  IF "X" \notin self.attrs THEN Raise("AttributeError")
  ELSE ParamsBody(self, globs, K_(self.X, self.theta),
                  exp_kernel(self.X, X_test, self.theta))

\* ------------------------------------------------------------- the inputs

X_one  == << <<0>> >>
X_two  == << <<0>>, <<2 * Scale>> >>
X_dup  == << <<Scale>>, <<Scale>> >>

\* The training sets fit is called with: two points; the same point twice;
\* and labels that are not one per point.
TrainSets ==
  { <<X_two, <<Scale, 0>>>>, <<X_dup, <<Scale, Scale>>>>, <<X_two, <<Scale>>>> }

\* The test sets of predict and predict_params.
TestSets == { << <<0>> >>, << <<Scale>>, <<3 * Scale>> >> }

\* x0 = [1, 1] of the minimize call, line 218.
Theta0 == <<Scale, Scale>>

\* The points at which the minimizer may evaluate the objective and which it
\* may return, all within bounds=((1e-3, None), (1e-3, None)).
Thetas == { Theta0, <<Scale, 10 * Scale>> }

\* The values a module-level y is rebound to.
GlobalYs == { <<Scale, 0>>, <<0, Scale>> }

\* The model instances.
Models == { "gp1", "gp2" }

\* ---------------------------------------------------------------- fit

\* scipy.optimize.minimize(nll, [1, 1], bounds, method="L-BFGS-B"), lines
\* 216-221, an external collaborator: the set of its possible outcomes.  It
\* evaluates the objective at x0 first and then at other points; an
\* exception of the objective is not caught by it and propagates; otherwise
\* it returns a result whose x is a point it evaluated and whose success
\* flag tells whether it converged.
MinimizeFrom(first, kinds) ==
  IF first # "ok"
  THEN { [kind |-> first, x |-> None, success |-> FALSE] }
  ELSE { [kind |-> kinds[t], x |-> None, success |-> FALSE] :
           t \in { u \in Thetas : kinds[u] # "ok" } }
       \cup
       { [kind |-> "ok", x |-> t, success |-> b] :
           t \in { u \in Thetas : kinds[u] = "ok" }, b \in BOOLEAN }

minimize(X, y) ==
  MinimizeFrom(nll(X, y, Theta0).kind, [t \in Thetas |-> nll(X, y, t).kind])

\* GPC.__init__: the object has the one attribute theta, set to None.
GPC == [attrs |-> {"theta"}, X |-> None, y |-> None, theta |-> None]

\* A variant of fit that goes on when the objective raised, and stores the
\* starting point as theta; C4_Propagates tells the two apart.
fit_continues(self, X, y, res) ==
  [self EXCEPT !.attrs = @ \cup {"X", "y"}, !.X = X, !.y = y,
               !.theta = IF res.kind = "ok" THEN res.x ELSE Theta0]

\* GPC.fit: the object after the call, given what minimize did (res).
\* self.X and self.y are assigned before minimize runs; self.theta is
\* assigned res.x after it returned, whatever res.success says.
fit(self, X, y, res) ==
  LET s1 == [self EXCEPT !.attrs = @ \cup {"X", "y"}, !.X = X, !.y = y]
  IN  IF res.kind = "ok" THEN [s1 EXCEPT !.theta = res.x] ELSE s1

\* ------------------------------------------------------------ evaluation
\* The objects and module globals the calls below can meet.

Objects ==
  { GPC } \cup
  { [attrs |-> {"theta", "X", "y"}, X |-> d[1], y |-> d[2], theta |-> t] :
      d \in TrainSets, t \in Thetas \cup {None} }

NoGlobals == [names |-> {}, y |-> None]
Globals == { NoGlobals } \cup { [names |-> {"y"}, y |-> v] : v \in GlobalYs }

\* The outcome of every call on every one of them.  minimize, predict and
\* predict_params are functions of their arguments alone, so their values
\* are worked out once, at the start, and the actions look them up.
Outcomes ==
  [ minimize       |-> [d \in TrainSets |-> minimize(d[1], d[2])],
    predict        |-> [c \in Objects \X TestSets |-> predict(c[1], c[2])],
    predict_params |-> [c \in Objects \X Globals \X TestSets |->
                          predict_params(c[1], c[2], c[3])] ]

\* ------------------------------------------------------------------ state

VARIABLES
  gp,       \* gp[m]: the model object m
  globs,    \* the names bound at module level (y, or none) and their values
  ret,      \* the last call: what was called on which object, and its outcome
  hist,     \* history: per object, the data of the minimize run that gave
            \* its theta, whether that run reported success, and whether
            \* any run for the object did
  pm,       \* a run of posterior_mode, pass by pass
  out       \* Outcomes, worked out at the start; never written

vars == <<gp, globs, ret, hist, pm, out>>

NoHist == [thetaOf |-> None, success |-> FALSE, fitted |-> FALSE]
NoCall == [op |-> "none", m |-> "none", kind |-> "ok", val |-> None,
           arg |-> None, opt |-> "none"]
PMIdle == [pc |-> "idle", X |-> None, y |-> None, K_a |-> None, max_iter |-> 0,
           tol |-> 0, done |-> 0, a_h |-> None, prev |-> None, brk |-> FALSE]

Init ==
  /\ gp = [m \in Models |-> GPC]
  /\ globs = NoGlobals
  /\ ret = NoCall
  /\ hist = [m \in Models |-> NoHist]
  /\ pm = PMIdle
  /\ out = Outcomes

\* gp = GPC(): the name is bound to a new object.
Construct(m) ==
  /\ gp' = [gp EXCEPT ![m] = GPC]
  /\ hist' = [hist EXCEPT ![m] = NoHist]
  /\ ret' = [NoCall EXCEPT !.op = "GPC", !.m = m]
  /\ UNCHANGED <<globs, pm, out>>

\* gp.fit(X, y)
Fit(m) ==
  \E d \in TrainSets : \E res \in out.minimize[d] :
    /\ gp' = [gp EXCEPT ![m] = fit(gp[m], d[1], d[2], res)]
    /\ hist' = [hist EXCEPT ![m] =
                  IF res.kind = "ok"
                  THEN [thetaOf |-> d, success |-> res.success,
                        fitted |-> @.fitted \/ res.success]
                  ELSE @]
    /\ ret' = [NoCall EXCEPT !.op = "fit", !.m = m, !.kind = res.kind,
                  !.arg = d,
                  !.opt = IF res.kind # "ok" THEN "raised"
                          ELSE IF res.success THEN "success" ELSE "unsuccessful"]
    /\ UNCHANGED <<globs, pm, out>>

\* A variant of Predict that keeps the mode it computed on the object, as
\* a cache would; C7_WrittenOnlyByFit tells the two apart.
PredictCaching(m) ==
  \E X_test \in TestSets :
    LET r == out.predict[<<gp[m], X_test>>]
    IN  /\ ret' = [NoCall EXCEPT !.op = "predict", !.m = m,
                      !.kind = r.kind, !.val = r.val, !.arg = X_test]
        /\ gp' = [gp EXCEPT ![m].attrs = @ \cup {"a_h"}]
        /\ UNCHANGED <<globs, hist, pm, out>>

\* gp.predict(X_test)
Predict(m) ==
  \E X_test \in TestSets :
    LET r == out.predict[<<gp[m], X_test>>]
    IN  /\ ret' = [NoCall EXCEPT !.op = "predict", !.m = m,
                      !.kind = r.kind, !.val = r.val, !.arg = X_test]
        /\ UNCHANGED <<gp, globs, hist, pm, out>>

\* gp.predict_params(X_test)
PredictParams(m) ==
  \E X_test \in TestSets :
    LET r == out.predict_params[<<gp[m], globs, X_test>>]
    IN  /\ ret' = [NoCall EXCEPT !.op = "predict_params", !.m = m,
                      !.kind = r.kind, !.val = r.val, !.arg = X_test]
        /\ UNCHANGED <<gp, globs, hist, pm, out>>

\* y = ... at module level, as the cells of the notebook do.
RebindY ==
  \E v \in GlobalYs :
    /\ globs' = [names |-> {"y"}, y |-> v]
    /\ ret' = [NoCall EXCEPT !.op = "y ="]
    /\ UNCHANGED <<gp, hist, pm, out>>

Next ==
  \/ \E m \in Models : Construct(m)
  \/ \E m \in Models : Fit(m)
  \/ \E m \in Models : Predict(m)
  \/ \E m \in Models : PredictParams(m)
  \/ RebindY

Spec == Init /\ [][Next]_vars

\* -------------------------------------------------- posterior_mode, by passes
\* A call of posterior_mode run one pass of its for loop at a time.  pm.done
\* counts the passes performed; pm.prev is the iterate the last pass started
\* from; pm.brk tells whether the last pass ended in break.

\* The largest max_iter a call is made with.
MaxIter == 3

\* The tolerances a call is made with: exact agreement, and 0.05.
Tols == { 0, Scale \div 20 }

\* The data a call is made with: the training sets, and a single point.
PMData == TrainSets \cup { <<X_one, <<Scale>>>> }

\* self.posterior_mode(X, y, K_a, max_iter, tol), up to the loop (line 113).
PMCall ==
  /\ pm.pc \in {"idle", "return", "raise"}
  /\ \E d \in PMData, theta \in Thetas, max_iter \in 0..MaxIter, tol \in Tols :
       pm' = [pc |-> "loop", X |-> d[1], y |-> d[2],
              K_a |-> K_(d[1], theta).val, max_iter |-> max_iter,
              tol |-> tol, done |-> 0, a_h |-> InitialIterate(d[1], d[2]),
              prev |-> None, brk |-> FALSE]
  /\ UNCHANGED <<gp, globs, ret, hist, out>>

\* A pass that does not break: lines 116-122, and back to line 115.
PMContinue ==
  /\ pm.pc = "loop"
  /\ InRange(pm.done, pm.max_iter)
  /\ ShapesAgree(pm.X, pm.y, pm.K_a)
  /\ ~LoopBody(pm.y, pm.K_a, pm.a_h, pm.tol).brk
  /\ pm' = [pm EXCEPT !.a_h = LoopBody(pm.y, pm.K_a, pm.a_h, pm.tol).a_h,
                      !.prev = pm.a_h, !.done = @ + 1]
  /\ UNCHANGED <<gp, globs, ret, hist, out>>

\* A pass that breaks: lines 116-123, and the return of line 125.
PMBreak ==
  /\ pm.pc = "loop"
  /\ InRange(pm.done, pm.max_iter)
  /\ ShapesAgree(pm.X, pm.y, pm.K_a)
  /\ LoopBody(pm.y, pm.K_a, pm.a_h, pm.tol).brk
  /\ pm' = [pm EXCEPT !.a_h = LoopBody(pm.y, pm.K_a, pm.a_h, pm.tol).a_h,
                      !.prev = pm.a_h, !.done = @ + 1, !.brk = TRUE,
                      !.pc = "return"]
  /\ UNCHANGED <<gp, globs, ret, hist, out>>

\* A pass on operands whose shapes do not agree: line 117 raises ValueError.
PMRaise ==
  /\ pm.pc = "loop"
  /\ InRange(pm.done, pm.max_iter)
  /\ ~ShapesAgree(pm.X, pm.y, pm.K_a)
  /\ pm' = [pm EXCEPT !.pc = "raise"]
  /\ UNCHANGED <<gp, globs, ret, hist, out>>

\* range(max_iter) is used up: the return of line 125.
PMExhaust ==
  /\ pm.pc = "loop"
  /\ ~InRange(pm.done, pm.max_iter)
  /\ pm' = [pm EXCEPT !.pc = "return"]
  /\ UNCHANGED <<gp, globs, ret, hist, out>>

\* The steps of a call that is under way.
PMStep == PMContinue \/ PMBreak \/ PMRaise \/ PMExhaust

PMNext == PMCall \/ PMStep

\* No call is made on a model object here, and no outcome is looked up.
PMInit ==
  /\ gp = [m \in Models |-> GPC]
  /\ globs = NoGlobals
  /\ ret = NoCall
  /\ hist = [m \in Models |-> NoHist]
  /\ pm = PMIdle
  /\ out = None

PMSpec == PMInit /\ [][PMNext]_vars

\* The interpreter runs a call that is under way: it is single-threaded and
\* nothing in the loop waits.  This is weak fairness of PMStep, written with
\* what ENABLED <<PMStep>>_vars comes to: at pc = "loop" exactly one of the
\* four steps has its guard true, and each of them changes pm.
PMFair == PMSpec /\ ([]<>(pm.pc # "loop") \/ []<><<PMStep>>_vars)

\* --------------------------------------------------------------- the claims

\* A model object that a fit has fitted: it has its data and its theta, both
\* from the same run of minimize, and that run reported success.
Fitted(m) ==
  /\ gp[m].attrs = {"theta", "X", "y"}
  /\ gp[m].theta # None
  /\ hist[m].thetaOf = <<gp[m].X, gp[m].y>>
  /\ hist[m].success

\* What a call of predict_params returned or raised, as looked up for the
\* object o, the module globals g and the test set t.
ParamsOf(o, g, t) == out.predict_params[<<o, g, t>>]

\* sigmoid(kappa * mu) for the (mu, var) that predict_params returned.
ProbitsOf(q) == PredictTail(q)

\* C1 (as stated): every model object is always either unfitted (it has none
\* of X, y, theta) or fitted (it has all three, and theta comes from the fit
\* that stored X and y).
C1_TwoStates ==
  \A m \in Models :
    \/ gp[m].attrs = {"theta"} /\ gp[m].theta = None
    \/ /\ gp[m].attrs = {"theta", "X", "y"}
       /\ gp[m].theta # None
       /\ hist[m].thetaOf = <<gp[m].X, gp[m].y>>

\* C2 (as stated): predict and predict_params on an object for which no fit
\* has completed successfully end in an error, never in a normal return.
C2_UnfittedRaises ==
  (ret.op \in {"predict", "predict_params"} /\ ~hist[ret.m].fitted)
    => ret.kind # "ok"

\* C3 (as stated): when the optimizer reports an unsuccessful result, fit
\* does not complete normally and the object does not hold the optimizer's
\* vector as theta.
C3_OptimizerFailurePropagates ==
  (ret.op = "fit" /\ ret.opt = "unsuccessful")
    => (ret.kind # "ok" /\ hist[ret.m].thetaOf # ret.arg)

\* C4 (as stated): a linear-algebra failure of the exact inverse inside the
\* objective does not abort fit.
C4_FitNotAborted == ret.op = "fit" => ret.kind # "LinAlgError"

\* C4 (amended): when the exact inverse inside the objective raises during
\* fit, the failure propagates: fit ends in LinAlgError, and the object keeps
\* the theta it had before the call.
C4_Propagates ==
  [][\A m \in Models :
       (ret'.op = "fit" /\ ret'.m = m /\ ret'.opt = "raised")
         => (ret'.kind # "ok" /\ gp'[m].theta = gp[m].theta)]_vars

\* C4, its case: a fit that the exact inverse aborted, on an object that an
\* earlier fit had given a theta.
C4_Witness ==
  /\ ret.op = "fit"
  /\ ret.kind = "LinAlgError"
  /\ gp[ret.m].theta # None

\* C5: a call of posterior_mode on operands of agreeing shapes performs at
\* most max_iter passes, returns a vector of the length of y (the value of
\* posterior_mode), never raises, and comes to its return: also when
\* max_iter passes have gone by without a break.
C5_Terminates ==
  /\ [](pm.pc # "idle" => pm.done <= pm.max_iter)
  /\ [](pm.pc = "return" =>
          /\ Len(pm.a_h) = Len(pm.y)
          /\ posterior_mode(pm.X, pm.y, pm.K_a, pm.max_iter, pm.tol)
               = Ok(pm.a_h))
  /\ [](pm.pc = "raise" => ~ShapesAgree(pm.X, pm.y, pm.K_a))
  /\ (pm.pc = "loop" ~> pm.pc \in {"return", "raise"})

\* C5, its case: a return after max_iter > 0 passes none of which broke.
C5_Witness ==
  /\ pm.pc = "return"
  /\ ~pm.brk
  /\ pm.max_iter > 0
  /\ pm.done = pm.max_iter

\* C6: with max_iter = 0 a call performs no pass, does not raise, and returns
\* the vector of zeros of the length of y.
C6_ZeroIterations ==
  (pm.pc # "idle" /\ pm.max_iter = 0) =>
    /\ pm.pc # "raise"
    /\ pm.done = 0
    /\ pm.prev = None
    /\ pm.a_h = Zeros(Len(pm.y))
    /\ posterior_mode(pm.X, pm.y, pm.K_a, 0, pm.tol) = Ok(Zeros(Len(pm.y)))

\* C6, its case: a call with max_iter = 0 has returned.
C6_Witness == pm.pc = "return" /\ pm.max_iter = 0 /\ pm.a_h = Zeros(Len(pm.y))

\* C7: construction leaves the object with theta absent (None) and nothing
\* else; only a construction or a fit of an object changes it; predict and
\* predict_params change no object and add no attribute.
C7_WrittenOnlyByFit ==
  [][\A m \in Models :
       /\ (ret'.op = "GPC" /\ ret'.m = m) => gp'[m] = GPC
       /\ gp'[m] # gp[m] => (ret'.m = m /\ ret'.op \in {"GPC", "fit"})
       /\ ret'.op \in {"predict", "predict_params"} => gp' = gp]_vars

\* C7, its case: predict has returned predictions on a fitted object.
C7_Witness == ret.op = "predict" /\ ret.kind = "ok" /\ Fitted(ret.m)

\* C8 (as stated): what predict_params does on a fitted object does not
\* depend on what is bound at module level.
C8_Independent ==
  \A m \in Models : Fitted(m) =>
    \A t \in TestSets, g \in Globals :
      ParamsOf(gp[m], g, t) = ParamsOf(gp[m], globs, t)

\* C9 (as stated): when a pass breaks, the iterate returned is the one the
\* pass started from.
C9_TestThenUpdate == (pm.pc = "return" /\ pm.brk) => pm.a_h = pm.prev

\* C9 (amended): every pass replaces the iterate by its Newton update and
\* then tests; the loop stops at the first pass whose update differs from
\* the iterate it started from by at most tol in every coordinate, and what
\* is returned then is the update.
C9_UpdateThenTest ==
  (pm.pc \in {"loop", "return"} /\ pm.done > 0) =>
    /\ pm.a_h = NewtonUpdate(pm.y, pm.K_a, pm.prev)
    /\ pm.brk <=> ~AnyDiffAbove(pm.a_h, pm.prev, pm.tol)
    /\ pm.brk => pm.pc = "return"

\* C9, its case: a pass has broken on an update that differs from the
\* iterate it started from.
C9_Witness == pm.pc = "return" /\ pm.brk /\ pm.a_h # pm.prev

\* C10 (as stated): on a fitted object predict_params returns exactly when
\* predict does, and predict returns sigmoid(kappa * mu) for the (mu, var)
\* that predict_params returns.
C10_Agree ==
  \A m \in Models : Fitted(m) =>
    \A t \in TestSets :
      /\ ParamsOf(gp[m], globs, t).kind = "ok"
           <=> out.predict[<<gp[m], t>>].kind = "ok"
      /\ ParamsOf(gp[m], globs, t).kind = "ok"
           => out.predict[<<gp[m], t>>] = ProbitsOf(ParamsOf(gp[m], globs, t))

====
